---- MODULE Spec2Model ----
(***************************************************************************)
(* A model of the socket objects of the Lua/APR binding (src/io_net.c).    *)
(*                                                                         *)
(* The state is the set of lua_apr_socket userdata the module has          *)
(* allocated (their pool, handle, family and protocol fields and the       *)
(* buffers attached by socket_init), the native world behind them (APR     *)
(* memory pools and APR sockets, with a count of how often each was        *)
(* released) and a record of the last Lua-visible operation: what it       *)
(* returned or raised and which native / buffer-engine calls it made.      *)
(*                                                                         *)
(* Every result of a native call (its apr_status_t) is an input of the     *)
(* action that makes the call.  A native constructor that fails leaves     *)
(* its out-parameter as it was.  A native call handed a null socket or     *)
(* pool kills the process.                                                 *)
(*                                                                         *)
(* One action is one call of a C function of the module, from entry to     *)
(* return; Resume is the Lua caller taking its results.  Spec drives the   *)
(* whole interface; SpecTimeout drives the timeout functions with every    *)
(* kind of argument and keeps the history variable lastset; SpecHistory    *)
(* drives the connection functions, close and the finalizer and keeps the  *)
(* operation before the last one in prev; SpecOptions drives create and    *)
(* addr_get with every token in builds with and without IPv6; SpecNumbers  *)
(* drives connect, bind and listen with ports and backlogs of any size.    *)
(***************************************************************************)
EXTENDS Integers, Sequences, FiniteSets

\* ------------------------------------------------------------------ bounds
\* Number of lua_apr_socket userdata that may be allocated in one run.
MaxObj == 2

\* ------------------------------------------------------------------ constants
NULL == 0

Objs == 1 .. MaxObj

\* apr_status_t values the native layer hands back.
APR_SUCCESS == "APR_SUCCESS"
APR_ENOMEM  == "APR_ENOMEM"
APR_TIMEUP  == "APR_TIMEUP"
APR_EGENERAL == "APR_EGENERAL"
Failures == {APR_EGENERAL}
Statuses == {APR_SUCCESS} \cup Failures

\* Native constants the option tokens are mapped to.
APR_PROTO_TCP == "APR_PROTO_TCP"
APR_PROTO_UDP == "APR_PROTO_UDP"
APR_INET   == "APR_INET"
APR_INET6  == "APR_INET6"
APR_UNSPEC == "APR_UNSPEC"
SOCK_STREAM == "SOCK_STREAM"
SOCK_DGRAM  == "SOCK_DGRAM"
NoConst == "-"

\* ------------------------------------------------------------------ Lua values
\* A Lua value on the stack: its type tag, a number payload and a string payload.
LuaVal(t, n, s) == [t |-> t, n |-> n, s |-> s]
LNil        == LuaVal("nil", 0, "")
LBool(b)    == LuaVal("boolean", IF b THEN 1 ELSE 0, "")
LTrue       == LBool(TRUE)
LFalse      == LBool(FALSE)
LNum(n)     == LuaVal("number", n, "")
LStr(s)     == LuaVal("string", 0, s)
LObj(i)     == LuaVal("userdata", i, "lua_apr_socket*")
LAbsent     == LuaVal("none", 0, "")

\* The values a C function returns to Lua: the top n values of its stack.
Returned(stack, n) == SubSeq(stack, Len(stack) - n + 1, Len(stack))

\* ------------------------------------------------------------------ state
VARIABLES
  nobj,       \* number of userdata allocated so far (new_object calls)
  pool,       \* pool[i]: object->pool, NULL or the id of an APR pool
  handle,     \* handle[i]: object->handle, NULL or the id of an APR socket
  family,     \* family[i]: object->family
  protocol,   \* protocol[i]: object->protocol
  buffers,    \* buffers[i]: the input/output buffers of object i
  owned,      \* owned[i]: the object was returned to the Lua caller
  finalized,  \* finalized[i]: __gc ran on the object
  npool,      \* npool[p]: the APR pool p
  nsock,      \* nsock[s]: the APR socket s
  crashed,    \* the process died on a wild memory access
  ipv6,       \* the build's APR_HAVE_IPV6
  lastop,     \* the last operation: arguments, outcome, calls made
  lastset,    \* history: lastset[i] is the argument of the last timeout_set on i
              \* that returned true (kept by SpecTimeout only)
  prev        \* history: the operation before the last one (kept by SpecHistory only)

vars == <<nobj, pool, handle, family, protocol, buffers, owned, finalized,
          npool, nsock, crashed, ipv6, lastop, lastset, prev>>

\* An APR pool: state and how many times apr_pool_destroy was applied to it.
NoPool == [st |-> "none", destroys |-> 0]
\* An APR socket: connection state, the address family, socket type and
\* protocol it was made with, the listening socket it was accepted from (if
\* any), timeout and the number of apr_socket_close calls.
NoSock == [st |-> "none", family |-> NoConst, type |-> NoConst, protocol |-> NoConst,
           via |-> NULL, timeout |-> 0, closes |-> 0]
\* Buffers as left by new_object (zeroed) and as set up by init_buffers.
NoBuffers == [init |-> FALSE, transport |-> NULL]

\* The record of an operation: the function, the object it was applied to, the
\* Lua arguments, the error raised, the values returned, the calls made, the
\* userdata allocated and what was handed to the native layer.
Op(name, h, args, err, ret, calls, new, narg) ==
  [op |-> name, h |-> h, args |-> args, err |-> err, ret |-> ret, calls |-> calls,
   new |-> new, narg |-> narg]
NoArg == [host |-> "", n |-> 0]
NoOp == Op("none", 0, <<>>, "", <<>>, <<>>, 0, NoArg)

\* A C pointer to a socket object: to allocated object i, the null pointer, an
\* address that is not mapped, or an address of writable memory that holds no
\* socket object.
Ptr(kind, i) == [kind |-> kind, i |-> i]

InitObjects ==
  /\ nobj = 0
  /\ pool = [i \in Objs |-> NULL]
  /\ handle = [i \in Objs |-> NULL]
  /\ family = [i \in Objs |-> NoConst]
  /\ protocol = [i \in Objs |-> NoConst]
  /\ buffers = [i \in Objs |-> NoBuffers]
  /\ owned = [i \in Objs |-> FALSE]
  /\ finalized = [i \in Objs |-> FALSE]
  /\ npool = [i \in Objs |-> NoPool]
  /\ nsock = [i \in Objs |-> NoSock]
  /\ crashed = FALSE
  /\ lastop = NoOp
  /\ lastset = [i \in Objs |-> LAbsent]
  /\ prev = NoOp

Init == InitObjects /\ ipv6 = TRUE

\* ------------------------------------------------------------------ machine
\* One C function runs on a machine record: the objects and the native world
\* it reads and writes, its Lua stack, and what it has done so far.
\*   args   the Lua arguments of the call
\*   stack  the Lua stack of the call (arguments first)
\*   status the apr_status_t of the last native call
\*   nres   the number of results of the last push_* helper
\*   out    the out-parameter of the last native getter
\*   err    "" or the message of the Lua error that was raised (longjmp)
\*   calls  the native and buffer-engine calls made, in order
\*   new    the userdata allocated by this call (0: none)
\*   narg   host and number (port, backlog) handed to the native layer
\*   ptr    the function's local lua_apr_socket pointer (object, client)
Enter(args) ==
  [nobj |-> nobj, pool |-> pool, handle |-> handle, family |-> family,
   protocol |-> protocol, buffers |-> buffers, npool |-> npool, nsock |-> nsock,
   finalized |-> finalized, crashed |-> FALSE, args |-> args, stack |-> args,
   status |-> APR_SUCCESS, nres |-> 0,
   out |-> 0, err |-> "", calls |-> <<>>, new |-> 0, narg |-> NoArg,
   ptr |-> Ptr("null", 0)]

\* Leaving the C function: the machine becomes the state; the values returned
\* are the top n of the stack (none when an error was raised or the process died).
Results(M, n) == IF M.err = "" /\ ~M.crashed THEN Returned(M.stack, n) ELSE <<>>

Leave(name, h, M, n) ==
  /\ nobj' = M.nobj
  /\ pool' = M.pool
  /\ handle' = M.handle
  /\ family' = M.family
  /\ protocol' = M.protocol
  /\ buffers' = M.buffers
  /\ npool' = M.npool
  /\ nsock' = M.nsock
  /\ finalized' = M.finalized
  /\ crashed' = M.crashed
  /\ owned' = [i \in Objs |->
                 owned[i] \/ \E k \in 1 .. Len(Results(M, n)) : Results(M, n)[k] = LObj(i)]
  /\ lastop' = Op(name, h, M.args, IF M.crashed THEN "crash" ELSE M.err,
                  Results(M, n), M.calls, M.new, M.narg)
  /\ UNCHANGED ipv6

\* A call that is not recorded in the history of timeouts.
Call(name, h, M) == Leave(name, h, M, M.nres) /\ UNCHANGED <<lastset, prev>>

\* A call of f that reported status st; a call of f that reports nothing.
Called(M, f, st) ==
  IF M.crashed THEN M ELSE [M EXCEPT !.calls = Append(@, [f |-> f, st |-> st])]
Did(M, f) == Called(M, f, "")
Push(M, v) == [M EXCEPT !.stack = Append(@, v)]

\* luaL_error / luaL_argerror: the call is abandoned with a Lua error.
ClosedMsg == "attempt to use a closed socket"
OptionMsg == "invalid option"
Raise(M, msg) == [M EXCEPT !.err = msg]

\* ------------------------------------------------------------------ helpers of the binding
\* push_error_status(L, status): nil and the message of the status.
push_error_status(M, status) ==
  [Push(Push(M, LNil), LStr(status)) EXCEPT !.nres = 2]

\* push_status(L, status): true on success, else push_error_status.
push_status(M, status) ==
  IF status = APR_SUCCESS THEN [Push(M, LTrue) EXCEPT !.nres = 1]
  ELSE push_error_status(M, status)

\* new_object(L, type): a zeroed userdata of the type, pushed on the stack.
new_object(M) ==
  LET n == M.nobj + 1 IN
  [Push(M, LObj(n)) EXCEPT !.nobj = n, !.new = n,
     !.pool[n] = NULL, !.handle[n] = NULL,
     !.family[n] = NoConst, !.protocol[n] = NoConst, !.buffers[n] = NoBuffers]

\* init_buffers(L, input, output, transport, ...): both buffers start empty,
\* bound to the transport.
init_buffers(M, i, transport) ==
  [Did(M, "init_buffers") EXCEPT !.buffers[i] = [init |-> TRUE, transport |-> transport]]

\* ------------------------------------------------------------------ native layer (APR)
\* A native call f that reports status st.  It dereferences its socket or pool
\* argument: handed a null pointer (valid = FALSE) the process dies.
Native(M, f, valid, st) ==
  IF M.crashed THEN M
  ELSE IF ~valid THEN [M EXCEPT !.crashed = TRUE]
  ELSE [Called(M, f, st) EXCEPT !.status = st]

apr_pool_create(M, i, st) ==
  LET C == Native(M, "apr_pool_create", TRUE, st) IN
  IF st = APR_SUCCESS /\ ~C.crashed
  THEN [C EXCEPT !.pool[i] = i, !.npool[i] = [st |-> "live", destroys |-> 0]]
  ELSE C

apr_pool_destroy(M, p) ==
  IF M.crashed THEN M
  ELSE IF p = NULL THEN [M EXCEPT !.crashed = TRUE]
  ELSE [Did(M, "apr_pool_destroy") EXCEPT
          !.npool[p] = [st |-> "destroyed", destroys |-> @.destroys + 1]]

apr_socket_create(M, i, fam, type, proto, p, st) ==
  LET C == Native(M, "apr_socket_create", p # NULL, st) IN
  IF st = APR_SUCCESS /\ ~C.crashed
  THEN [C EXCEPT !.handle[i] = i,
                 !.nsock[i] = [st |-> "unbound", family |-> fam, type |-> type,
                               protocol |-> proto, via |-> NULL,
                               timeout |-> -1, closes |-> 0]]
  ELSE C

\* The descriptor is gone after apr_socket_close whatever status it reports.
apr_socket_close(M, s, st) ==
  LET C == Native(M, "apr_socket_close", s # NULL, st) IN
  IF C.crashed THEN C
  ELSE [C EXCEPT !.nsock[s] = [st |-> "closed", family |-> @.family,
                               type |-> @.type, protocol |-> @.protocol,
                               via |-> @.via,
                               timeout |-> 0, closes |-> @.closes + 1]]

\* A native call that changes the connection state of socket s succeeds only
\* from the states in `from`; st is the status it reports when it may succeed.
NativeStatus(M, s, from, st) ==
  IF s # NULL /\ M.nsock[s].st \in from THEN st
  ELSE IF st = APR_SUCCESS THEN APR_EGENERAL ELSE st

apr_sockaddr_info_get(M, host, fam, port, p, st) ==
  LET C == Native(M, "apr_sockaddr_info_get", p # NULL, st) IN
  IF C.crashed THEN C ELSE [C EXCEPT !.narg = [host |-> host, n |-> port]]

apr_socket_connect(M, s, st) ==
  LET r == NativeStatus(M, s, {"unbound", "bound"}, st)
      C == Native(M, "apr_socket_connect", s # NULL, r) IN
  IF r = APR_SUCCESS /\ ~C.crashed THEN [C EXCEPT !.nsock[s].st = "connected"] ELSE C

apr_socket_bind(M, s, st) ==
  LET r == NativeStatus(M, s, {"unbound"}, st)
      C == Native(M, "apr_socket_bind", s # NULL, r) IN
  IF r = APR_SUCCESS /\ ~C.crashed THEN [C EXCEPT !.nsock[s].st = "bound"] ELSE C

apr_socket_listen(M, s, backlog, st) ==
  LET r == IF s # NULL /\ M.nsock[s].type = SOCK_STREAM
           THEN NativeStatus(M, s, {"bound", "listening"}, st)
           ELSE NativeStatus(M, s, {}, st)
      C == Native(M, "apr_socket_listen", s # NULL, r) IN
  IF C.crashed THEN C
  ELSE IF r = APR_SUCCESS
  THEN [C EXCEPT !.narg = [host |-> "", n |-> backlog], !.nsock[s].st = "listening"]
  ELSE [C EXCEPT !.narg = [host |-> "", n |-> backlog]]

\* A connection taken from the queue of listening socket s becomes socket c,
\* allocated in pool p.
apr_socket_accept(M, c, s, p, st) ==
  LET r == NativeStatus(M, s, {"listening"}, st)
      C == Native(M, "apr_socket_accept", s # NULL /\ p # NULL, r) IN
  IF r = APR_SUCCESS /\ ~C.crashed
  THEN [C EXCEPT !.handle[c] = c,
                 !.nsock[c] = [st |-> "connected", family |-> M.nsock[s].family,
                               type |-> M.nsock[s].type,
                               protocol |-> M.nsock[s].protocol, via |-> s,
                               timeout |-> -1, closes |-> 0]]
  ELSE C

apr_socket_timeout_set(M, s, t, st) ==
  LET C == Native(M, "apr_socket_timeout_set", s # NULL, st) IN
  IF st = APR_SUCCESS /\ ~C.crashed THEN [C EXCEPT !.nsock[s].timeout = t] ELSE C

apr_socket_timeout_get(M, s, st) ==
  LET C == Native(M, "apr_socket_timeout_get", s # NULL, st) IN
  IF C.crashed THEN C ELSE [C EXCEPT !.out = M.nsock[s].timeout]

apr_socket_addr_get(M, s, st) == Native(M, "apr_socket_addr_get", s # NULL, st)
apr_sockaddr_ip_get(M, st) == Native(M, "apr_sockaddr_ip_get", TRUE, st)

\* ------------------------------------------------------------------ buffer engine
\* read_buffer(L, input): the values read, or nil and a message.
read_buffer(M, i, st) ==
  LET C == Called(M, "read_buffer", st) IN
  IF st = APR_SUCCESS THEN [Push(C, LStr("data")) EXCEPT !.nres = 1]
  ELSE push_error_status(C, st)

\* read_lines(L, input): an iterator over the lines of the input.
read_lines(M, i) ==
  [Push(Did(M, "read_lines"), LuaVal("function", i, "lines")) EXCEPT !.nres = 1]

\* write_buffer(L, output): the values go to the output buffer; true, or nil
\* and a message.
write_buffer(M, i, st) == push_status(Called(M, "write_buffer", st), st)

\* flush_buffer(L, output, soft): the buffered bytes go to the send callback.
flush_buffer(M, i, st) == [Called(M, "flush_buffer", st) EXCEPT !.status = st]

\* ------------------------------------------------------------------ Lua auxiliary library
\* luaL_checkoption(L, i, def, options): the index of the argument (or of def,
\* when the argument is absent or nil) in options; 0 stands for the argument
\* error it raises otherwise.
luaL_checkoption(v, def, options) ==
  LET name == IF v.t \in {"none", "nil"} THEN def
              ELSE IF v.t = "string" THEN v.s ELSE "" IN
  IF \E k \in 1 .. Len(options) : options[k] = name
  THEN CHOOSE k \in 1 .. Len(options) : options[k] = name
  ELSE 0

\* A C string pointer: the null pointer or a string.
CStr(s) == [null |-> FALSE, s |-> s]
NullStr == [null |-> TRUE, s |-> ""]

\* lua_pushstring(L, s): the string, or nil when s is the null pointer.
lua_pushstring(M, p) == Push(M, IF p.null THEN LNil ELSE LStr(p.s))

lua_isnumber(v) == v.t = "number"
lua_toboolean(v) == ~(v.t \in {"none", "nil"} \/ (v.t = "boolean" /\ v.n = 0))
luaL_checkinteger(v) == v.n

\* ------------------------------------------------------------------ internal functions
\* A socket_alloc that stores its two constants in each other's field.
socket_alloc_swapped(M, fam, proto, st) ==
  LET n == M.nobj + 1
      A == [new_object(M) EXCEPT !.family[n] = proto, !.protocol[n] = fam]
      B == apr_pool_create(A, n, st) IN
  IF B.status = APR_SUCCESS THEN [B EXCEPT !.ptr = Ptr("obj", n)] ELSE B

\* socket_alloc(L, family, protocol, objptr): *objptr is assigned on success only.
socket_alloc(M, fam, proto, st) ==
  LET n == M.nobj + 1
      A == [new_object(M) EXCEPT !.family[n] = fam, !.protocol[n] = proto]
      B == apr_pool_create(A, n, st) IN
  IF B.status = APR_SUCCESS THEN [B EXCEPT !.ptr = Ptr("obj", n)] ELSE B

\* socket_init(L, object): reads object->handle and writes object->input and
\* object->output through the pointer it is given.
socket_init(M, object) ==
  IF object.kind = "obj" THEN init_buffers(M, object.i, M.handle[object.i])
  ELSE IF object.kind = "stray" THEN Did(M, "init_buffers")
  ELSE [M EXCEPT !.crashed = TRUE]

\* A socket_check that ignores `open`.
socket_check_lax(M, i, open) == TRUE

\* socket_check(L, i, open): FALSE stands for the error it raises.
socket_check(M, i, open) == ~(open /\ M.handle[i] = NULL)

family_options == IF ipv6 THEN <<"inet", "inet6", "unspec">> ELSE <<"inet", "unspec">>
family_values == IF ipv6 THEN <<APR_INET, APR_INET6, APR_UNSPEC>>
                 ELSE <<APR_INET, APR_UNSPEC>>

\* A family_check that maps a token it does not know to APR_UNSPEC.
family_check_lenient(v) ==
  LET k == luaL_checkoption(v, "inet", family_options) IN
  IF k = 0 THEN APR_UNSPEC ELSE family_values[k]

\* A family_check whose default is "unspec".
family_check_unspec(v) ==
  LET k == luaL_checkoption(v, "unspec", family_options) IN
  IF k = 0 THEN NoConst ELSE family_values[k]

\* family_check(L, i): NoConst stands for the argument error.
family_check(v) ==
  LET k == luaL_checkoption(v, "inet", family_options) IN
  IF k = 0 THEN NoConst ELSE family_values[k]

\* A socket_close_impl that leaves the released pointers in the object.
socket_close_impl_stale(M, i, st) ==
  LET A == IF M.handle[i] # NULL THEN apr_socket_close(M, M.handle[i], st)
           ELSE [M EXCEPT !.status = APR_SUCCESS]
      status == A.status
      B == IF A.pool[i] # NULL THEN apr_pool_destroy(A, A.pool[i]) ELSE A IN
  [B EXCEPT !.status = status]

\* A socket_close_impl that closes the socket and forgets the pool.
socket_close_impl_handle_only(M, i, st) ==
  IF M.handle[i] # NULL
  THEN [apr_socket_close(M, M.handle[i], st) EXCEPT !.handle[i] = NULL]
  ELSE [M EXCEPT !.status = APR_SUCCESS]

\* A socket_close_impl that gives up when apr_socket_close reports an error.
socket_close_impl_early_return(M, i, st) ==
  LET A == IF M.handle[i] # NULL
           THEN apr_socket_close(M, M.handle[i], st)
           ELSE [M EXCEPT !.status = APR_SUCCESS]
      status == A.status IN
  IF status # APR_SUCCESS THEN A
  ELSE LET B == [A EXCEPT !.handle[i] = NULL]
           C == IF B.pool[i] # NULL
                THEN [apr_pool_destroy(B, B.pool[i]) EXCEPT !.pool[i] = NULL]
                ELSE B IN
       [C EXCEPT !.status = status]

\* socket_close_impl(L, object); st is what apr_socket_close reports if called.
socket_close_impl(M, i, st) ==
  LET A == IF M.handle[i] # NULL
           THEN [apr_socket_close(M, M.handle[i], st) EXCEPT !.handle[i] = NULL]
           ELSE [M EXCEPT !.status = APR_SUCCESS]
      status == A.status
      B == IF A.pool[i] # NULL
           THEN [apr_pool_destroy(A, A.pool[i]) EXCEPT !.pool[i] = NULL]
           ELSE A IN
  [B EXCEPT !.status = status]

\* ------------------------------------------------------------------ Lua-visible functions
\* Each function maps the machine at entry to the machine at return, with
\* nres the number of values it returns.
Return(M, n) == [M EXCEPT !.nres = n]

proto_options == <<"tcp", "udp">>
proto_values == <<APR_PROTO_TCP, APR_PROTO_UDP>>
SocketType(proto) == IF proto = APR_PROTO_TCP THEN SOCK_STREAM ELSE SOCK_DGRAM

\* An apr.socket_create that sets up the buffers before it looks at the status.
lua_apr_socket_create_early_init(M, stPool, stSock) ==
  LET pk == luaL_checkoption(M.stack[1], "tcp", proto_options)
      fam == family_check(M.stack[2]) IN
  IF pk = 0 \/ fam = NoConst THEN Raise(M, OptionMsg)
  ELSE
    LET proto == proto_values[pk]
        A == socket_alloc(M, fam, proto, stPool)
        B == IF A.status = APR_SUCCESS
             THEN apr_socket_create(A, A.ptr.i, fam, SocketType(proto), proto,
                                    A.pool[A.ptr.i], stSock)
             ELSE A
        C == socket_init(B, B.ptr) IN
    IF C.status # APR_SUCCESS THEN push_error_status(C, C.status)
    ELSE Return(C, 1)

\* apr.socket_create([protocol [, family]])
lua_apr_socket_create(M, stPool, stSock) ==
  LET pk == luaL_checkoption(M.stack[1], "tcp", proto_options)
      fam == family_check(M.stack[2]) IN
  IF pk = 0 \/ fam = NoConst THEN Raise(M, OptionMsg)
  ELSE
    LET proto == proto_values[pk]
        type == SocketType(proto)
        A == socket_alloc(M, fam, proto, stPool)
        B == IF A.status = APR_SUCCESS
             THEN apr_socket_create(A, A.ptr.i, fam, type, proto, A.pool[A.ptr.i], stSock)
             ELSE A IN
    IF B.status # APR_SUCCESS THEN push_error_status(B, B.status)
    ELSE Return(socket_init(B, B.ptr), 1)

\* A socket:connect(host, port) whose port variable is a plain int.
socket_connect_wide(M, i, stAddr, stConn) ==
  IF ~socket_check(M, i, TRUE) THEN Raise(M, ClosedMsg)
  ELSE
    LET host == M.stack[2].s
        port == luaL_checkinteger(M.stack[3])
        A == apr_sockaddr_info_get(M, host, M.family[i], port, M.pool[i], stAddr)
        B == IF A.status = APR_SUCCESS
             THEN apr_socket_connect(A, A.handle[i], stConn) ELSE A IN
    push_status(B, B.status)

\* socket:connect(host, port); the port is stored in an apr_port_t, an unsigned
\* 16-bit integer.
socket_connect(M, i, stAddr, stConn) ==
  IF ~socket_check(M, i, TRUE) THEN Raise(M, ClosedMsg)
  ELSE
    LET host == M.stack[2].s
        port == luaL_checkinteger(M.stack[3]) % 65536
        A == apr_sockaddr_info_get(M, host, M.family[i], port, M.pool[i], stAddr)
        B == IF A.status = APR_SUCCESS
             THEN apr_socket_connect(A, A.handle[i], stConn) ELSE A IN
    push_status(B, B.status)

\* socket:bind(host, port)
APR_ANYADDR == "0.0.0.0"

\* A socket:bind(host, port) that tears the socket down when binding fails.
socket_bind_closing(M, i, stAddr, stBind) ==
  IF ~socket_check(M, i, TRUE) THEN Raise(M, ClosedMsg)
  ELSE
    LET host == IF M.stack[2].s = "*" THEN APR_ANYADDR ELSE M.stack[2].s
        port == luaL_checkinteger(M.stack[3]) % 65536
        A == apr_sockaddr_info_get(M, host, M.family[i], port, M.pool[i], stAddr)
        B == IF A.status = APR_SUCCESS
             THEN apr_socket_bind(A, A.handle[i], stBind) ELSE A
        C == IF B.status # APR_SUCCESS
             THEN [socket_close_impl(B, i, APR_SUCCESS) EXCEPT !.status = B.status]
             ELSE B IN
    push_status(C, C.status)

socket_bind(M, i, stAddr, stBind) ==
  IF ~socket_check(M, i, TRUE) THEN Raise(M, ClosedMsg)
  ELSE
    LET host == IF M.stack[2].s = "*" THEN APR_ANYADDR ELSE M.stack[2].s
        port == luaL_checkinteger(M.stack[3]) % 65536
        A == apr_sockaddr_info_get(M, host, M.family[i], port, M.pool[i], stAddr)
        B == IF A.status = APR_SUCCESS
             THEN apr_socket_bind(A, A.handle[i], stBind) ELSE A IN
    push_status(B, B.status)

\* socket:listen(backlog); the backlog is stored in an apr_int32_t, which holds
\* every backlog of the model as it is.
socket_listen(M, i, st) ==
  IF ~socket_check(M, i, TRUE) THEN Raise(M, ClosedMsg)
  ELSE
    LET backlog == luaL_checkinteger(M.stack[2])
        A == apr_socket_listen(M, M.handle[i], backlog, st) IN
    push_status(A, A.status)

\* A socket:accept() that stores the accepted socket in the server object.
socket_accept_into_server(M, i, stPool, stAcc) ==
  IF ~socket_check(M, i, TRUE) THEN Raise(M, ClosedMsg)
  ELSE
    LET A == socket_alloc(M, M.family[i], M.protocol[i], stPool)
        B == IF A.status = APR_SUCCESS
             THEN apr_socket_accept(A, i, A.handle[i], A.pool[A.ptr.i], stAcc) ELSE A
        C == socket_init(B, B.ptr) IN
    IF C.crashed THEN C
    ELSE IF C.status # APR_SUCCESS THEN push_error_status(C, C.status)
    ELSE Return(C, 1)

\* A socket:accept() that returns the client whatever the status.
socket_accept_unchecked(M, i, stPool, stAcc) ==
  IF ~socket_check(M, i, TRUE) THEN Raise(M, ClosedMsg)
  ELSE
    LET A == socket_alloc(M, M.family[i], M.protocol[i], stPool)
        B == IF A.status = APR_SUCCESS
             THEN apr_socket_accept(A, A.ptr.i, A.handle[i], A.pool[A.ptr.i], stAcc) ELSE A
        C == socket_init(B, B.ptr) IN
    Return(C, 1)

\* socket:accept(); M.ptr at entry is what the local `client` holds before
\* anything is assigned to it.
socket_accept(M, i, stPool, stAcc) ==
  IF ~socket_check(M, i, TRUE) THEN Raise(M, ClosedMsg)
  ELSE
    LET A == socket_alloc(M, M.family[i], M.protocol[i], stPool)
        B == IF A.status = APR_SUCCESS
             THEN apr_socket_accept(A, A.ptr.i, A.handle[i], A.pool[A.ptr.i], stAcc) ELSE A
        C == socket_init(B, B.ptr) IN
    IF C.crashed THEN C
    ELSE IF C.status # APR_SUCCESS THEN push_error_status(C, C.status)
    ELSE Return(C, 1)

\* socket:read([format, ...])
socket_read(M, i, st) ==
  IF ~socket_check(M, i, TRUE) THEN Raise(M, ClosedMsg)
  ELSE read_buffer(M, i, st)

\* A socket:write(value [, ...]) that drops the status of the flush.
socket_write_unchecked(M, i, stWrite, stFlush) ==
  IF ~socket_check(M, i, TRUE) THEN Raise(M, ClosedMsg)
  ELSE
    LET A == write_buffer(M, i, stWrite)
        nresults == A.nres
        B == flush_buffer(A, i, stFlush) IN
    Return(B, nresults)

\* socket:write(value [, ...])
socket_write(M, i, stWrite, stFlush) ==
  IF ~socket_check(M, i, TRUE) THEN Raise(M, ClosedMsg)
  ELSE
    LET A == write_buffer(M, i, stWrite)
        nresults == A.nres
        B == flush_buffer(A, i, stFlush) IN
    IF B.status # APR_SUCCESS THEN push_error_status(B, B.status)
    ELSE Return(B, nresults)

\* socket:lines()
socket_lines(M, i) ==
  IF ~socket_check(M, i, TRUE) THEN Raise(M, ClosedMsg)
  ELSE read_lines(M, i)

\* A socket:timeout_get() that knows the sentinels -1 and 0 only.
socket_timeout_get_sentinels(M, i, st) ==
  IF ~socket_check(M, i, TRUE) THEN Raise(M, ClosedMsg)
  ELSE
    LET A == apr_socket_timeout_get(M, M.handle[i], st)
        timeout == A.out IN
    IF A.status # APR_SUCCESS THEN push_error_status(A, A.status)
    ELSE IF timeout \in {-1, 0} THEN Return(Push(A, LBool(timeout # 0)), 1)
    ELSE Return(Push(A, LNum(timeout)), 1)

\* socket:timeout_get()
socket_timeout_get(M, i, st) ==
  IF ~socket_check(M, i, TRUE) THEN Raise(M, ClosedMsg)
  ELSE
    LET A == apr_socket_timeout_get(M, M.handle[i], st)
        timeout == A.out IN
    IF A.status # APR_SUCCESS THEN push_error_status(A, A.status)
    ELSE IF timeout <= 0 THEN Return(Push(A, LBool(timeout # 0)), 1)
    ELSE Return(Push(A, LNum(timeout)), 1)

\* A socket:timeout_set(timeout) with the two boolean sentinels exchanged.
socket_timeout_set_swapped(M, i, st) ==
  IF ~socket_check(M, i, TRUE) THEN Raise(M, ClosedMsg)
  ELSE
    LET timeout == IF lua_isnumber(M.stack[2]) THEN luaL_checkinteger(M.stack[2])
                   ELSE IF lua_toboolean(M.stack[2]) THEN 0 ELSE -1
        A == apr_socket_timeout_set(M, M.handle[i], timeout, st) IN
    push_status(A, A.status)

\* socket:timeout_set(timeout)
socket_timeout_set(M, i, st) ==
  IF ~socket_check(M, i, TRUE) THEN Raise(M, ClosedMsg)
  ELSE
    LET timeout == IF lua_isnumber(M.stack[2]) THEN luaL_checkinteger(M.stack[2])
                   ELSE IF lua_toboolean(M.stack[2]) THEN -1 ELSE 0
        A == apr_socket_timeout_set(M, M.handle[i], timeout, st) IN
    push_status(A, A.status)

\* socket:addr_get([type]); hostname is address->hostname as the native layer
\* left it: the host name, or the null pointer when none is available.
addr_options == <<"local", "remote">>
socket_addr_get(M, i, stAddr, stIp, hostname) ==
  IF ~socket_check(M, i, TRUE) THEN Raise(M, ClosedMsg)
  ELSE
    LET which == luaL_checkoption(M.stack[2], "remote", addr_options) IN
    IF which = 0 THEN Raise(M, OptionMsg)
    ELSE
      LET A == apr_socket_addr_get(M, M.handle[i], stAddr)
          B == IF A.status = APR_SUCCESS THEN apr_sockaddr_ip_get(A, stIp) ELSE A IN
      IF B.status # APR_SUCCESS THEN push_error_status(B, B.status)
      ELSE Return(lua_pushstring(lua_pushstring(B, CStr("ip_address")), hostname), 2)

\* A socket:close() that accepts a closed socket.
socket_close_any(M, i, st) ==
  IF ~socket_check(M, i, FALSE) THEN Raise(M, ClosedMsg)
  ELSE LET A == socket_close_impl(M, i, st) IN push_status(A, A.status)

\* socket:close()
socket_close(M, i, st) ==
  IF ~socket_check(M, i, TRUE) THEN Raise(M, ClosedMsg)
  ELSE LET A == socket_close_impl(M, i, st) IN push_status(A, A.status)

\* A socket:__tostring() that insists on an open socket.
socket_tostring_open(M, i) ==
  IF ~socket_check(M, i, TRUE) THEN Raise(M, ClosedMsg)
  ELSE Return(Push(M, LStr("Open Lua/APR socket object")), 1)

\* socket:__tostring()
socket_tostring(M, i) ==
  IF ~socket_check(M, i, FALSE) THEN Raise(M, ClosedMsg)
  ELSE Return(Push(M, LStr(IF M.handle[i] # NULL THEN "Open Lua/APR socket object"
                                                 ELSE "Closed Lua/APR socket object")), 1)

\* A socket:__gc() that hands the status of the teardown to its caller.
socket_gc_reporting(M, i, st) ==
  IF ~socket_check(M, i, FALSE) THEN Raise(M, ClosedMsg)
  ELSE LET A == [socket_close_impl(M, i, st) EXCEPT !.finalized[i] = TRUE] IN
       push_status(A, A.status)

\* socket:__gc()
socket_gc(M, i, st) ==
  IF ~socket_check(M, i, FALSE) THEN Raise(M, ClosedMsg)
  ELSE Return([socket_close_impl(M, i, st) EXCEPT !.finalized[i] = TRUE], 0)

\* ------------------------------------------------------------------ inputs
PoolStatuses == {APR_SUCCESS, APR_ENOMEM}
AcceptStatuses == {APR_SUCCESS, APR_TIMEUP, APR_EGENERAL}

\* Arguments of apr.socket_create in the life-cycle specification.
CreateArgs == {<<LAbsent, LAbsent>>, <<LStr("udp"), LStr("inet6")>>,
               <<LStr("raw"), LAbsent>>}
TimeoutArgs == {LTrue}
Hosts == {"*"}
Ports == {80}
Backlogs == {5}
AddrArgs == {LAbsent, LStr("peer")}
Hostnames == {NullStr, CStr("hostname")}

\* What an unassigned local pointer may hold: whatever was left in its stack
\* slot, the address of an object allocated earlier or of the userdata the
\* call itself is about to allocate (object nobj + 1) included.
Indeterminate ==
  {Ptr("null", 0), Ptr("unmapped", 0), Ptr("stray", 0)}
    \cup {Ptr("obj", k) : k \in 1 .. nobj + 1}

\* ------------------------------------------------------------------ actions
\* Lua calls into the module when the previous call has returned and its
\* results were taken.
Idle == ~crashed /\ lastop = NoOp
Live(i) == Idle /\ i \in 1 .. nobj /\ owned[i]

\* The local `object` of lua_apr_socket_create is read only after
\* socket_alloc assigned it.
Create(args, stPool, stSock) ==
  /\ Idle /\ nobj < MaxObj
  /\ LET R == lua_apr_socket_create(Enter(args), stPool, stSock) IN
     Call("create", 0, R)

Connect(i, host, port, stAddr, stConn) ==
  /\ Live(i)
  /\ LET R == socket_connect(Enter(<<LObj(i), LStr(host), LNum(port)>>), i, stAddr, stConn) IN
     Call("connect", i, R)

Bind(i, host, port, stAddr, stBind) ==
  /\ Live(i)
  /\ LET R == socket_bind(Enter(<<LObj(i), LStr(host), LNum(port)>>), i, stAddr, stBind) IN
     Call("bind", i, R)

Listen(i, backlog, st) ==
  /\ Live(i)
  /\ LET R == socket_listen(Enter(<<LObj(i), LNum(backlog)>>), i, st) IN
     Call("listen", i, R)

Accept(i, stPool, stAcc, client) ==
  /\ Live(i) /\ nobj < MaxObj
  /\ LET R == socket_accept([Enter(<<LObj(i)>>) EXCEPT !.ptr = client], i, stPool, stAcc) IN
     Call("accept", i, R)

Read(i, st) ==
  /\ Live(i)
  /\ LET R == socket_read(Enter(<<LObj(i)>>), i, st) IN Call("read", i, R)

Write(i, stWrite, stFlush) ==
  /\ Live(i)
  /\ LET R == socket_write(Enter(<<LObj(i), LStr("abc")>>), i, stWrite, stFlush) IN
     Call("write", i, R)

Lines(i) ==
  /\ Live(i)
  /\ LET R == socket_lines(Enter(<<LObj(i)>>), i) IN Call("lines", i, R)

TimeoutGet(i, st) ==
  /\ Live(i)
  /\ LET R == socket_timeout_get(Enter(<<LObj(i)>>), i, st) IN
     Call("timeout_get", i, R)

TimeoutSet(i, v, st) ==
  /\ Live(i)
  /\ LET R == socket_timeout_set(Enter(<<LObj(i), v>>), i, st) IN
     Call("timeout_set", i, R)

\* timeout_set in the specification of timeouts, which remembers the argument
\* of the last call that took effect.
TimeoutSetRecorded(i, v, st) ==
  /\ Live(i)
  /\ LET R == socket_timeout_set(Enter(<<LObj(i), v>>), i, st) IN
     /\ Leave("timeout_set", i, R, R.nres)
     /\ lastset' = IF Results(R, R.nres) = <<LTrue>>
                   THEN [lastset EXCEPT ![i] = v] ELSE lastset
     /\ UNCHANGED prev

AddrGet(i, which, stAddr, stIp, hostname) ==
  /\ Live(i)
  /\ LET R == socket_addr_get(Enter(<<LObj(i), which>>), i, stAddr, stIp, hostname) IN
     Call("addr_get", i, R)

Close(i, st) ==
  /\ Live(i)
  /\ LET R == socket_close(Enter(<<LObj(i)>>), i, st) IN Call("close", i, R)

Describe(i) ==
  /\ Live(i)
  /\ LET R == socket_tostring(Enter(<<LObj(i)>>), i) IN Call("tostring", i, R)

\* The collector finalizes any allocated object, also one never returned to Lua.
Gc(i, st) ==
  /\ Idle /\ i \in 1 .. nobj
  /\ LET R == socket_gc(Enter(<<LObj(i)>>), i, st) IN Call("gc", i, R)

\* The Lua caller takes the results (or catches the error) of the last call.
Resume ==
  /\ ~crashed /\ lastop # NoOp
  /\ lastop' = NoOp
  /\ UNCHANGED <<nobj, pool, handle, family, protocol, buffers, owned, finalized,
                 npool, nsock, crashed, ipv6, lastset, prev>>

\* Resume in the specification that remembers the operation just completed.
ResumeRecorded ==
  /\ ~crashed /\ lastop # NoOp
  /\ lastop' = NoOp
  /\ prev' = lastop
  /\ UNCHANGED <<nobj, pool, handle, family, protocol, buffers, owned, finalized,
                 npool, nsock, crashed, ipv6, lastset>>

Next ==
  \/ \E a \in CreateArgs, p \in PoolStatuses, s \in Statuses : Create(a, p, s)
  \/ \E i \in Objs, h \in Hosts, p \in Ports, a \in Statuses, c \in Statuses :
       Connect(i, h, p, a, c)
  \/ \E i \in Objs, h \in Hosts, p \in Ports, a \in Statuses, b \in Statuses :
       Bind(i, h, p, a, b)
  \/ \E i \in Objs, b \in Backlogs, s \in Statuses : Listen(i, b, s)
  \/ \E i \in Objs, p \in PoolStatuses, s \in AcceptStatuses, c \in Indeterminate :
       Accept(i, p, s, c)
  \/ \E i \in Objs, s \in Statuses : Read(i, s)
  \/ \E i \in Objs, w \in Statuses, f \in Statuses : Write(i, w, f)
  \/ \E i \in Objs : Lines(i)
  \/ \E i \in Objs, s \in Statuses : TimeoutGet(i, s)
  \/ \E i \in Objs, v \in TimeoutArgs, s \in Statuses : TimeoutSet(i, v, s)
  \/ \E i \in Objs, w \in AddrArgs, a \in Statuses, s \in Statuses, n \in Hostnames :
       AddrGet(i, w, a, s, n)
  \/ \E i \in Objs, s \in Statuses : Close(i, s)
  \/ \E i \in Objs : Describe(i)
  \/ \E i \in Objs, s \in Statuses : Gc(i, s)
  \/ Resume

Spec == Init /\ [][Next]_vars

\* Timeouts: sockets are created with the default arguments and the timeout
\* functions get every kind of argument.
TimeoutArgsAll == {LTrue, LFalse, LNil, LNum(0), LNum(1), LNum(1500000),
                   LNum(-1), LNum(-5)}

NextTimeout ==
  \/ \E p \in PoolStatuses, s \in Statuses : Create(<<LAbsent, LAbsent>>, p, s)
  \/ \E i \in Objs, s \in Statuses : TimeoutGet(i, s)
  \/ \E i \in Objs, v \in TimeoutArgsAll, s \in Statuses : TimeoutSetRecorded(i, v, s)
  \/ \E i \in Objs, s \in Statuses : Close(i, s)
  \/ Resume

SpecTimeout == Init /\ [][NextTimeout]_vars

\* Consecutive calls: sockets are created with the default arguments, and
\* the operation that came before the last one is remembered.
NextHistory ==
  \/ \E p \in PoolStatuses, s \in Statuses : Create(<<LAbsent, LAbsent>>, p, s)
  \/ \E i \in Objs, h \in Hosts, p \in Ports, a \in Statuses, c \in Statuses :
       Connect(i, h, p, a, c)
  \/ \E i \in Objs, h \in Hosts, p \in Ports, a \in Statuses, b \in Statuses :
       Bind(i, h, p, a, b)
  \/ \E i \in Objs, b \in Backlogs, s \in Statuses : Listen(i, b, s)
  \/ \E i \in Objs, s \in Statuses : Close(i, s)
  \/ \E i \in Objs : Describe(i)
  \/ \E i \in Objs, s \in Statuses : Gc(i, s)
  \/ ResumeRecorded

SpecHistory == Init /\ [][NextHistory]_vars

\* Options: either build (with and without APR_HAVE_IPV6); apr.socket_create
\* and addr_get get every token, known and unknown, and omitted arguments.
ProtoArgs == {LAbsent, LNil, LStr("tcp"), LStr("udp"), LStr("raw")}
FamilyArgs == {LAbsent, LStr("inet"), LStr("inet6"), LStr("unspec"), LStr("ipx")}
AddrArgsAll == {LAbsent, LStr("local"), LStr("remote"), LStr("peer")}

InitOptions == InitObjects /\ ipv6 \in BOOLEAN

NextOptions ==
  \/ \E a \in ProtoArgs, f \in FamilyArgs, p \in PoolStatuses, s \in Statuses :
       Create(<<a, f>>, p, s)
  \/ \E i \in Objs, w \in AddrArgsAll, a \in Statuses, s \in Statuses, n \in Hostnames :
       AddrGet(i, w, a, s, n)
  \/ \E i \in Objs, s \in Statuses : Close(i, s)
  \/ Resume

SpecOptions == InitOptions /\ [][NextOptions]_vars

\* Numbers: sockets are created with the default arguments; connect and bind
\* get ports inside and outside 0 .. 65535, listen gets backlogs of either sign.
PortsAll == {0, 80, 65535, 65536, 65616, 131152, -1, -65456}
BacklogsAll == {-5, -1, 0, 5}

NextNumbers ==
  \/ \E p \in PoolStatuses, s \in Statuses : Create(<<LAbsent, LAbsent>>, p, s)
  \/ \E i \in Objs, h \in Hosts, p \in PortsAll, a \in Statuses, c \in Statuses :
       Connect(i, h, p, a, c)
  \/ \E i \in Objs, h \in Hosts, p \in PortsAll, a \in Statuses, b \in Statuses :
       Bind(i, h, p, a, b)
  \/ \E i \in Objs, b \in BacklogsAll, s \in Statuses : Listen(i, b, s)
  \/ \E i \in Objs, s \in Statuses : Close(i, s)
  \/ Resume

SpecNumbers == Init /\ [][NextNumbers]_vars

\* ------------------------------------------------------------------ properties
Acquired(i) == nsock[i].st # "none"
Arena(i) == npool[i].st # "none"
OpenMsg == LStr("Open Lua/APR socket object")
ClosedObjMsg == LStr("Closed Lua/APR socket object")
IOOps == {"connect", "bind", "listen", "accept", "read", "write", "lines",
          "timeout_get", "timeout_set", "addr_get"}
\* Lua holds object i, which is closed, and is about to make its next call.
ClosedBefore(i) == lastop = NoOp /\ ~crashed /\ owned[i] /\ handle[i] = NULL

\* C1: whatever close calls and finalizer runs were applied to an object, its
\* native socket was closed at most once and its pool destroyed at most once;
\* once the finalizer has run, the socket and the pool the object acquired, if
\* any, have each been released exactly once.
C1_ReleasedOnce ==
  \A i \in Objs :
    /\ nsock[i].closes <= 1
    /\ npool[i].destroys <= 1
    /\ finalized[i] =>
         /\ Acquired(i) => nsock[i].st = "closed" /\ nsock[i].closes = 1
         /\ Arena(i) => npool[i].st = "destroyed" /\ npool[i].destroys = 1

\* The finalizer ran on an object that an explicit close had already torn down.
C1_Witness ==
  /\ lastop.op = "gc" /\ lastop.calls = <<>>
  /\ finalized[lastop.h] /\ owned[lastop.h]
  /\ nsock[lastop.h].closes = 1 /\ npool[lastop.h].destroys = 1

\* C2: on a closed handle each of connect, bind, listen, accept, read, write,
\* lines, timeout_get, timeout_set and addr_get raises the closed-socket
\* error before any native or buffer-engine call; descriptor and pool stay
\* null, nothing is allocated and nothing is released.
C2_ClosedRefused ==
  [][\A i \in Objs :
       (ClosedBefore(i) /\ lastop'.op \in IOOps /\ lastop'.h = i) =>
         /\ lastop'.err = ClosedMsg
         /\ lastop'.ret = <<>>
         /\ lastop'.calls = <<>>
         /\ handle'[i] = NULL /\ pool'[i] = NULL
         /\ UNCHANGED <<nobj, pool, handle, buffers, npool, nsock>>]_vars

\* timeout_set was refused on a handle closed by socket:close().
C2_Witness ==
  /\ lastop.op = "timeout_set" /\ lastop.err = ClosedMsg
  /\ owned[lastop.h] /\ ~finalized[lastop.h] /\ nsock[lastop.h].closes = 1

\* C3 as stated: close on a closed handle returns true and raises nothing.
C3_Original ==
  [][\A i \in Objs :
       (ClosedBefore(i) /\ lastop'.op = "close" /\ lastop'.h = i) =>
         /\ lastop'.err = ""
         /\ lastop'.ret = <<LTrue>>
         /\ UNCHANGED <<npool, nsock>>]_vars

\* C3 (amended): close on a closed handle raises the closed-socket error; it
\* returns nothing, makes no native call and releases nothing.
C3_CloseTwiceRaises ==
  [][\A i \in Objs :
       (ClosedBefore(i) /\ lastop'.op = "close" /\ lastop'.h = i) =>
         /\ lastop'.err = ClosedMsg
         /\ lastop'.ret = <<>>
         /\ lastop'.calls = <<>>
         /\ UNCHANGED <<pool, handle, npool, nsock>>]_vars

\* A second close on a handle whose first close released socket and pool.
C3_Witness ==
  /\ lastop.op = "close" /\ lastop.calls = <<>>
  /\ owned[lastop.h] /\ ~finalized[lastop.h]
  /\ nsock[lastop.h].closes = 1 /\ npool[lastop.h].destroys = 1

\* C4: __tostring never raises, in any state of the handle, and says "Open"
\* exactly when the descriptor is non-null; the descriptor is non-null right
\* after a successful create and null right after a close that returned.
C4_Describe ==
  /\ lastop.op = "tostring" =>
       /\ lastop.err = ""
       /\ lastop.ret = <<IF handle[lastop.h] # NULL THEN OpenMsg ELSE ClosedObjMsg>>
  /\ (lastop.op = "create" /\ lastop.ret = <<LObj(lastop.new)>>) =>
       handle[lastop.new] # NULL
  /\ (lastop.op = "close" /\ lastop.err = "") => handle[lastop.h] = NULL

\* __tostring on a handle that was closed and finalized.
C4_Witness ==
  /\ lastop.op = "tostring" /\ lastop.ret = <<ClosedObjMsg>>
  /\ finalized[lastop.h] /\ nsock[lastop.h].closes = 1

\* A native or buffer-engine call of the last operation reported a failure.
Failed(op) == \E k \in 1 .. Len(op.calls) : op.calls[k].st \notin {APR_SUCCESS, ""}
FailedIn(op, f) ==
  \E k \in 1 .. Len(op.calls) : op.calls[k].f = f /\ op.calls[k].st # APR_SUCCESS
Made(op, f) == \E k \in 1 .. Len(op.calls) : op.calls[k].f = f
IsError(ret) == Len(ret) = 2 /\ ret[1] = LNil /\ ret[2].t = "string"

\* C5 as stated: in every state, every allocated object has a non-null
\* descriptor exactly when it has a non-null pool.
C5_Original ==
  \A i \in 1 .. nobj : (handle[i] # NULL) <=> (pool[i] # NULL)

\* C5 (amended): a non-null descriptor always comes with a non-null pool, and
\* for every object that was returned to the caller the two are null or
\* non-null together; an object abandoned by a failed create or accept may
\* hold a pool without a descriptor until it is finalized, after which both
\* are null.  Non-null fields point to a live pool and an open socket.
C5_Paired ==
  \A i \in 1 .. nobj :
    /\ handle[i] # NULL => pool[i] # NULL
    /\ owned[i] => ((handle[i] # NULL) <=> (pool[i] # NULL))
    /\ finalized[i] => handle[i] = NULL /\ pool[i] = NULL
    /\ handle[i] # NULL => nsock[handle[i]].st \notin {"none", "closed"}
    /\ pool[i] # NULL => npool[pool[i]].st = "live"

\* A failed create left an object with a pool and no descriptor, next to a
\* handle that was closed by the caller.
C5_Witness ==
  \E i, j \in 1 .. nobj :
    /\ ~owned[i] /\ pool[i] # NULL /\ handle[i] = NULL
    /\ owned[j] /\ nsock[j].closes = 1 /\ pool[j] = NULL /\ handle[j] = NULL

\* C6: a create that fails at pool creation or at socket creation returns nil
\* and a message and no handle, never sets up the buffers, and the pool it
\* created, if any, is destroyed at most once while the abandoned object
\* waits for the collector and exactly once when it has been finalized.
C6_CreateFails ==
  /\ (lastop.op = "create" /\ Failed(lastop)) =>
       /\ lastop.err = ""
       /\ IsError(lastop.ret)
       /\ ~owned[lastop.new]
       /\ handle[lastop.new] = NULL
       /\ ~Made(lastop, "init_buffers")
       /\ ~buffers[lastop.new].init
       /\ FailedIn(lastop, "apr_pool_create") => pool[lastop.new] = NULL /\ ~Arena(lastop.new)
       /\ FailedIn(lastop, "apr_socket_create") => npool[lastop.new].st = "live"
  /\ \A i \in 1 .. nobj :
       (~owned[i] /\ Arena(i)) =>
         /\ npool[i].destroys <= 1
         /\ finalized[i] => npool[i].st = "destroyed" /\ npool[i].destroys = 1

\* The collector finalized the object of a create whose socket creation failed.
C6_Witness ==
  /\ lastop.op = "gc" /\ nobj = 1 /\ ~owned[1]
  /\ npool[1].st = "destroyed" /\ npool[1].destroys = 1 /\ ~Acquired(1)

\* C7: a successful accept returns a new object with its own socket and its
\* own pool and leaves the listening object as it was (same descriptor, pool,
\* family and protocol, socket still listening); a close changes the object
\* it is applied to and no other.
C7_AcceptFrame ==
  [][/\ (lastop'.op = "accept" /\ lastop'.ret # <<>> /\ lastop'.ret[1].t = "userdata") =>
          LET i == lastop'.h
              c == lastop'.ret[1].n IN
          /\ Len(lastop'.ret) = 1
          /\ c # i /\ c = lastop'.new /\ c = nobj + 1
          /\ handle'[c] # NULL /\ pool'[c] # NULL
          /\ handle'[c] # handle'[i] /\ pool'[c] # pool'[i]
          /\ nsock'[handle'[c]].st = "connected" /\ npool'[pool'[c]].st = "live"
          /\ handle[i] # NULL
          /\ handle'[i] = handle[i] /\ pool'[i] = pool[i]
          /\ family'[i] = family[i] /\ protocol'[i] = protocol[i]
          /\ nsock[handle[i]].st = "listening"
          /\ nsock'[handle[i]] = nsock[handle[i]]
          /\ npool'[pool[i]] = npool[pool[i]]
     /\ lastop'.op = "close" =>
          \A j \in Objs \ {lastop'.h} :
            /\ handle'[j] = handle[j] /\ pool'[j] = pool[j]
            /\ family'[j] = family[j] /\ protocol'[j] = protocol[j]
            /\ nsock'[j] = nsock[j] /\ npool'[j] = npool[j]]_vars

\* The listening handle was closed while the handle accepted from it is open.
C7_Witness ==
  /\ lastop.op = "close" /\ lastop.err = ""
  /\ \E c \in 1 .. nobj :
       /\ c # lastop.h /\ owned[c] /\ handle[c] # NULL
       /\ nsock[handle[c]].via = lastop.h /\ nsock[handle[c]].st = "connected"

\* C8: when apr_socket_accept fails (a timeout included) accept returns nil
\* and a message and no handle; the listening object keeps its open socket,
\* the client object has a null descriptor and holds its pool, which is
\* destroyed exactly once when the client object is finalized.
C8_AcceptFails ==
  [][/\ (lastop'.op = "accept" /\ FailedIn(lastop', "apr_socket_accept")) =>
          LET i == lastop'.h
              c == lastop'.new IN
          /\ lastop'.err = ""
          /\ IsError(lastop'.ret)
          /\ c = nobj + 1 /\ ~owned'[c]
          /\ handle'[c] = NULL
          /\ pool'[c] # NULL /\ npool'[pool'[c]] = [st |-> "live", destroys |-> 0]
          /\ handle[i] # NULL /\ handle'[i] = handle[i] /\ pool'[i] = pool[i]
          /\ nsock'[handle[i]] = nsock[handle[i]]
     /\ \A c \in Objs \ {1} :
          (lastop'.op = "gc" /\ lastop'.h = c /\ ~owned[c] /\ pool[c] # NULL) =>
            /\ pool'[c] = NULL /\ handle'[c] = NULL
            /\ npool'[pool[c]] = [st |-> "destroyed", destroys |-> 1]]_vars

\* An accept that timed out left a client object holding only its pool.
C8_Witness ==
  /\ lastop.op = "accept" /\ lastop.ret = <<LNil, LStr(APR_TIMEUP)>>
  /\ ~owned[lastop.new] /\ pool[lastop.new] # NULL /\ handle[lastop.new] = NULL
  /\ nsock[handle[lastop.h]].st = "listening"

\* The three-way domain of timeouts: forever, immediate, a positive count.
TimeoutDomain(v) == v.t = "boolean" \/ (v.t = "number" /\ v.n > 0)

\* C9: when timeout_set(v) returned true for a v of the three-way domain
\* (true, false, a positive integer) and no later timeout_set took effect, a
\* timeout_get that succeeds returns exactly v, whatever was set before.
C9_TimeoutRoundTrip ==
  (/\ lastop.op = "timeout_get" /\ lastop.err = "" /\ ~IsError(lastop.ret)
   /\ TimeoutDomain(lastset[lastop.h])) =>
     lastop.ret = <<lastset[lastop.h]>>

\* timeout_get returned 1500000 on a handle whose last effective timeout_set was 1500000.
C9_Witness ==
  /\ lastop.op = "timeout_get" /\ lastop.ret = <<LNum(1500000)>>
  /\ lastset[lastop.h] = LNum(1500000) /\ lastop.calls[1].st = APR_SUCCESS

\* C10: write on an open handle calls write_buffer and then flush_buffer
\* before it returns; it returns nil and the flush's message when the flush
\* failed, whatever write_buffer reported, and returns true only when the
\* flush (and the buffered write) succeeded.
C10_WriteFlushes ==
  (lastop.op = "write" /\ handle[lastop.h] # NULL) =>
     /\ lastop.err = ""
     /\ Len(lastop.calls) = 2
     /\ lastop.calls[1].f = "write_buffer" /\ lastop.calls[2].f = "flush_buffer"
     /\ lastop.calls[2].st # APR_SUCCESS => lastop.ret = <<LNil, LStr(lastop.calls[2].st)>>
     /\ lastop.ret = <<LTrue>> =>
          lastop.calls[2].st = APR_SUCCESS /\ lastop.calls[1].st = APR_SUCCESS
     /\ (lastop.calls[2].st = APR_SUCCESS /\ lastop.calls[1].st = APR_SUCCESS) =>
          lastop.ret = <<LTrue>>

\* The buffered write succeeded, the flush failed, and write returned nil.
C10_Witness ==
  /\ lastop.op = "write" /\ Len(lastop.calls) = 2
  /\ lastop.calls[1].st = APR_SUCCESS /\ lastop.calls[2].st = APR_EGENERAL
  /\ lastop.ret = <<LNil, LStr(APR_EGENERAL)>>

\* C11: the family and the protocol of an allocated object are never changed
\* by any operation (connect, bind, listen, accept, read, write, lines,
\* timeout_get, timeout_set, addr_get, close, the finalizer), and the object
\* an accept allocates gets exactly the family and the protocol of the
\* listening object it was accepted from.
C11_FamilyProtocolFixed ==
  [][/\ \A i \in 1 .. nobj : family'[i] = family[i] /\ protocol'[i] = protocol[i]
     /\ (lastop'.op = "accept" /\ lastop'.new # 0) =>
          /\ family'[lastop'.new] = family[lastop'.h]
          /\ protocol'[lastop'.new] = protocol[lastop'.h]
          /\ family[lastop'.h] \in {APR_INET, APR_INET6, APR_UNSPEC}
          /\ protocol[lastop'.h] \in {APR_PROTO_TCP, APR_PROTO_UDP}]_vars

\* The finalizer ran on a closed handle that accept had returned, and the
\* handle still has the family and the protocol of its listening handle.
C11_Witness ==
  /\ lastop.op = "gc" /\ owned[lastop.h] /\ finalized[lastop.h]
  /\ nsock[lastop.h].via # NULL /\ nsock[lastop.h].closes = 1
  /\ family[lastop.h] = family[nsock[lastop.h].via]
  /\ protocol[lastop.h] = protocol[nsock[lastop.h].via]
  /\ family[lastop.h] = APR_INET /\ protocol[lastop.h] = APR_PROTO_TCP

ConnOps == {"connect", "bind", "listen"}

\* C12: when connect, bind or listen fails, at address resolution or in the
\* native call (wrong connection state, address in use, refused, timed out),
\* it returns nil and a message and raises nothing, and the object's
\* descriptor and pool are the ones it had before the call, both still live;
\* the close that follows does not raise, closes the socket and destroys the
\* pool (each once), nulls both fields and returns true when the native close
\* reports success.
C12_FailedOpKeepsHandle ==
  [][/\ (lastop'.op \in ConnOps /\ Failed(lastop')) =>
          LET i == lastop'.h IN
          /\ lastop'.err = "" /\ IsError(lastop'.ret)
          /\ handle[i] # NULL /\ pool[i] # NULL
          /\ UNCHANGED <<nobj, handle, pool, npool, buffers>>
          /\ nsock'[handle[i]].closes = 0 /\ nsock'[handle[i]].st = nsock[handle[i]].st
          /\ npool'[pool[i]].st = "live"
     /\ (lastop'.op = "close" /\ prev.op \in ConnOps /\ Failed(prev)
           /\ prev.h = lastop'.h) =>
          LET i == lastop'.h IN
          /\ lastop'.err = ""
          /\ handle[i] # NULL /\ pool[i] # NULL
          /\ Len(lastop'.calls) = 2
          /\ lastop'.calls[1].f = "apr_socket_close"
          /\ lastop'.calls[2].f = "apr_pool_destroy"
          /\ lastop'.calls[1].st = APR_SUCCESS => lastop'.ret = <<LTrue>>
          /\ handle'[i] = NULL /\ pool'[i] = NULL
          /\ nsock'[handle[i]].st = "closed" /\ nsock'[handle[i]].closes = 1
          /\ npool'[pool[i]].st = "destroyed" /\ npool'[pool[i]].destroys = 1]_vars

\* close returned true right after a bind that failed in apr_socket_bind.
C12_Witness ==
  /\ lastop.op = "close" /\ lastop.ret = <<LTrue>>
  /\ prev.op = "bind" /\ prev.h = lastop.h /\ FailedIn(prev, "apr_socket_bind")
  /\ prev.ret = <<LNil, LStr(APR_EGENERAL)>>
  /\ nsock[lastop.h].closes = 1 /\ npool[lastop.h].destroys = 1

\* C13: when apr_socket_close reports an error during socket:close(), the
\* teardown is completed all the same: the descriptor is nulled, the pool is
\* destroyed and its reference nulled, and close returns nil and the message
\* of that error; afterwards the handle behaves as closed: __tostring says
\* "Closed", the I/O functions raise the closed-socket error and the finalizer
\* releases nothing more.
C13_CloseErrorCompletes ==
  [][/\ (lastop'.op = "close" /\ FailedIn(lastop', "apr_socket_close")) =>
          LET i == lastop'.h IN
          /\ lastop'.err = ""
          /\ lastop'.ret = <<LNil, LStr(lastop'.calls[1].st)>>
          /\ Len(lastop'.calls) = 2 /\ lastop'.calls[2].f = "apr_pool_destroy"
          /\ handle[i] # NULL /\ pool[i] # NULL
          /\ handle'[i] = NULL /\ pool'[i] = NULL
          /\ nsock'[handle[i]].st = "closed" /\ nsock'[handle[i]].closes = 1
          /\ npool'[pool[i]].st = "destroyed" /\ npool'[pool[i]].destroys = 1
     /\ (prev.op = "close" /\ FailedIn(prev, "apr_socket_close")
           /\ lastop'.op # "none" /\ lastop'.h = prev.h) =>
          /\ lastop'.calls = <<>>
          /\ UNCHANGED <<handle, pool, npool, nsock>>
          /\ lastop'.op = "tostring" => lastop'.ret = <<ClosedObjMsg>>
          /\ lastop'.op = "gc" => lastop'.err = "" /\ lastop'.ret = <<>>
          /\ lastop'.op \in ConnOps \cup {"close"} => lastop'.err = ClosedMsg]_vars

\* The finalizer ran on a handle right after its close returned the error of
\* apr_socket_close, and found nothing to release.
C13_Witness ==
  /\ lastop.op = "gc" /\ lastop.calls = <<>>
  /\ prev.op = "close" /\ prev.h = lastop.h
  /\ prev.ret = <<LNil, LStr(APR_EGENERAL)>>
  /\ nsock[lastop.h].closes = 1 /\ npool[lastop.h].destroys = 1
  /\ handle[lastop.h] = NULL /\ pool[lastop.h] = NULL

\* C14: the finalizer raises nothing and returns nothing (no error value),
\* whatever the state of the object: open, closed by socket:close(), left
\* with a pool and no descriptor by a failed create or accept, and when
\* apr_socket_close fails; when it has run, descriptor and pool are null.
C14_GcSilent ==
  lastop.op = "gc" =>
    /\ lastop.err = ""
    /\ lastop.ret = <<>>
    /\ finalized[lastop.h]
    /\ handle[lastop.h] = NULL /\ pool[lastop.h] = NULL

\* The finalizer ran on an open handle and apr_socket_close reported an error.
C14_Witness ==
  /\ lastop.op = "gc" /\ FailedIn(lastop, "apr_socket_close")
  /\ Made(lastop, "apr_pool_destroy")
  /\ lastop.ret = <<>> /\ lastop.err = ""
  /\ handle[lastop.h] = NULL /\ pool[lastop.h] = NULL

\* C15 as stated: the backlog that listen hands to apr_socket_listen is
\* max(backlog, 0) for every integer backlog: a negative one is clamped to 0.
C15_Original ==
  (lastop.op = "listen" /\ Made(lastop, "apr_socket_listen")) =>
     lastop.narg.n = IF lastop.args[2].n < 0 THEN 0 ELSE lastop.args[2].n

\* An optional token argument was left out (the argument is absent or nil).
Omitted(v) == v.t \in {"none", "nil"}
\* The tokens apr.socket_create and addr_get are documented to take.
ProtoTokens == {"tcp", "udp"}
FamilyTokens == {"inet", "unspec"} \cup (IF ipv6 THEN {"inet6"} ELSE {})
AddrTokens == {"local", "remote"}
BadToken(v, tokens) == ~Omitted(v) /\ ~(v.t = "string" /\ v.s \in tokens)

\* C16: apr.socket_create with a protocol token other than tcp and udp, or a
\* family token other than inet, unspec and (in a build with IPv6) inet6,
\* raises an argument error before anything is allocated: no userdata, no
\* pool, no native socket, no native call; addr_get on an open socket with a
\* token other than local and remote raises the same error and makes no
\* native call.
C16_BadTokenRejected ==
  [][/\ (lastop'.op = "create"
           /\ (BadToken(lastop'.args[1], ProtoTokens)
                 \/ BadToken(lastop'.args[2], FamilyTokens))) =>
          /\ lastop'.err = OptionMsg
          /\ lastop'.ret = <<>> /\ lastop'.calls = <<>> /\ lastop'.new = 0
          /\ UNCHANGED <<nobj, pool, handle, family, protocol, buffers, npool, nsock>>
     /\ (lastop'.op = "addr_get" /\ handle[lastop'.h] # NULL
           /\ BadToken(lastop'.args[2], AddrTokens)) =>
          /\ lastop'.err = OptionMsg
          /\ lastop'.ret = <<>> /\ lastop'.calls = <<>>
          /\ UNCHANGED <<nobj, pool, handle, family, protocol, buffers, npool, nsock>>]_vars

\* A build without IPv6 refused the family token inet6 when one socket
\* already existed, and allocated nothing.
C16_Witness ==
  /\ ~ipv6 /\ lastop.op = "create" /\ lastop.args = <<LStr("udp"), LStr("inet6")>>
  /\ lastop.err = OptionMsg /\ lastop.new = 0
  /\ nobj = 1 /\ handle[1] # NULL /\ ~Arena(2) /\ ~Acquired(2)

\* C17: apr.socket_create takes an omitted protocol as tcp and an omitted
\* family as inet; the object records the two constants, apr_socket_create
\* gets them, and the socket type is SOCK_STREAM for tcp and SOCK_DGRAM for
\* udp, whatever the family.
C17_CreateMapping ==
  (lastop.op = "create" /\ lastop.new # 0) =>
     LET a == lastop.args[1]
         f == lastop.args[2]
         o == lastop.new
         proto == IF Omitted(a) \/ a.s = "tcp" THEN APR_PROTO_TCP ELSE APR_PROTO_UDP
         fam == IF Omitted(f) \/ f.s = "inet" THEN APR_INET
                ELSE IF f.s = "inet6" THEN APR_INET6 ELSE APR_UNSPEC IN
     /\ protocol[o] = proto /\ family[o] = fam
     /\ lastop.ret = <<LObj(o)>> =>
          /\ nsock[handle[o]].protocol = proto
          /\ nsock[handle[o]].family = fam
          /\ nsock[handle[o]].type =
               (IF proto = APR_PROTO_TCP THEN SOCK_STREAM ELSE SOCK_DGRAM)

\* A create with the protocol udp and no family made an IPv4 datagram socket.
C17_Witness ==
  /\ lastop.op = "create" /\ lastop.args = <<LStr("udp"), LAbsent>>
  /\ lastop.ret = <<LObj(lastop.new)>>
  /\ nsock[handle[lastop.new]].family = APR_INET
  /\ nsock[handle[lastop.new]].type = SOCK_DGRAM
  /\ nsock[handle[lastop.new]].protocol = APR_PROTO_UDP

\* C18 as stated: an accept whose pool creation for the client failed (so the
\* local `client` was never assigned) returns the error without setting up
\* buffers and without any other access through `client`.
C18_Original ==
  (lastop.op = "accept" /\ FailedIn(lastop, "apr_pool_create")) =>
     /\ lastop.err = "" /\ IsError(lastop.ret)
     /\ ~Made(lastop, "init_buffers")

\* C19: the port that connect and bind hand to apr_sockaddr_info_get is in
\* 0 .. 65535; it is the caller's integer p when p is in that range, and
\* otherwise no error is raised and it is p modulo 65536 (65536 + 80 gives 80).
C19_PortSixteenBits ==
  (lastop.op \in {"connect", "bind"} /\ lastop.err # ClosedMsg) =>
     LET p == lastop.args[3].n
         q == lastop.narg.n IN
     /\ lastop.err = ""
     /\ lastop.calls # <<>> /\ lastop.calls[1].f = "apr_sockaddr_info_get"
     /\ q \in 0 .. 65535
     /\ p \in 0 .. 65535 => q = p
     /\ \E k \in -2 .. 2 : p = q + k * 65536
     /\ p = 65536 + 80 => q = 80

\* connect was called with port 65536 + 80 and resolved port 80; the native
\* connect succeeded.
C19_Witness ==
  /\ lastop.op = "connect" /\ lastop.args[3] = LNum(65616)
  /\ lastop.narg.n = 80 /\ lastop.ret = <<LTrue>>

\* C20: whatever timeout_set calls came before, with whatever arguments
\* (booleans, nil, zero, positive and negative integers), a timeout_get that
\* succeeds returns one value that is true, false or a strictly positive
\* integer, never 0 and never a negative number; after timeout_set(0) it
\* returns false and after timeout_set(n) with n < 0 it returns true.
C20_GetDomain ==
  (lastop.op = "timeout_get" /\ lastop.err = "" /\ ~IsError(lastop.ret)) =>
     LET v == lastset[lastop.h] IN
     /\ Len(lastop.ret) = 1
     /\ TimeoutDomain(lastop.ret[1])
     /\ v = LNum(0) => lastop.ret = <<LFalse>>
     /\ (v.t = "number" /\ v.n < 0) => lastop.ret = <<LTrue>>

\* timeout_get returned true on a handle whose last effective timeout_set was -5.
C20_Witness ==
  /\ lastop.op = "timeout_get" /\ lastop.ret = <<LTrue>>
  /\ lastset[lastop.h] = LNum(-5) /\ nsock[handle[lastop.h]].timeout = -5

====
